---- MODULE Spec2Model ----
(***************************************************************************)
(* The parcel store of go-db-sql-final: ParcelStore (src/parcel.go) issues *)
(* one SQL statement per operation against the single table `parcel`.      *)
(* The table is modelled as a set of rows, every statement as the          *)
(* relational operation it denotes, every method as one atomic action.     *)
(***************************************************************************)
EXTENDS Integers, Sequences, FiniteSets, TLC

\* ------------------------------------------------------------------------
\* Bounds of the model
\* ------------------------------------------------------------------------

\* Largest Number the storage layer hands out before Add is no longer taken.
MaxNumber == 2

\* Client identifiers and addresses callers pass in.
Clients == {1000, 2000}
Addresses == {"test", "new test address"}

\* Creation timestamps (RFC 3339, UTC); each client registers its parcels at
\* one instant, which keeps the table small while the column still varies.
CreatedAts == {"2024-01-01T10:00:00Z", "2024-01-02T10:00:00Z"}
CreatedAtOf(client) ==
  IF client = 1000 THEN "2024-01-01T10:00:00Z" ELSE "2024-01-02T10:00:00Z"

\* The goroutines that call the store in parallel.
Callers == {"a", "b"}

\* Values of the Number field a caller may leave in the Parcel given to Add.
CallerNumbers == {0, 1}

\* ------------------------------------------------------------------------
\* Parcel statuses (declared next to the Parcel type, outside src/)
\* ------------------------------------------------------------------------
ParcelStatusRegistered == "registered"
ParcelStatusSent == "sent"
ParcelStatusDelivered == "delivered"

Statuses == {ParcelStatusRegistered, ParcelStatusSent, ParcelStatusDelivered}

\* ------------------------------------------------------------------------
\* Errors
\* ------------------------------------------------------------------------
NoError == "nil"
\* sql.ErrNoRows, what Row.Scan returns when the query matched no row
ErrNoRows == "sql: no rows in result set"
\* any failure of the connection or of the execution of a statement
ErrDatabase == "database error"
\* what the driver may answer to Result.LastInsertId
ErrLastInsertId == "LastInsertId error"

\* Outcomes the database may give to the execution of one statement.
ExecOutcomes == {NoError, ErrDatabase}
IdOutcomes == {NoError, ErrLastInsertId}

\* ------------------------------------------------------------------------
\* The Parcel struct and the rows of table parcel
\* ------------------------------------------------------------------------
Numbers == 1..MaxNumber

\* Numbers a caller may ask about: every assignable one and one out of range.
AskedNumbers == 1..(MaxNumber + 1)

\* Go's zero value Parcel{}
ZeroParcel ==
  [Number |-> 0, Client |-> 0, Status |-> "", Address |-> "", CreatedAt |-> ""]

\* The parcels callers hand to Add.
InputParcels ==
  {p \in [Number : CallerNumbers, Client : Clients, Status : Statuses,
          Address : Addresses, CreatedAt : CreatedAts] :
     p.CreatedAt = CreatedAtOf(p.Client)}

\* Rows of table parcel: columns number, client, status, address, created_at.
Rows ==
  [number : Numbers, client : Clients, status : Statuses,
   address : Addresses, created_at : CreatedAts]

VARIABLES
  table,   \* the rows of table parcel
  seq,     \* the largest Number the table ever assigned (autoincrement state)
  issued,  \* history: the Numbers given to inserted rows, in order
  call,    \* the last call made to the store: method and arguments
  db,      \* what the database answered to that call's statement
  ret,     \* what that call returned
  before,  \* the rows of the table when that call was made
  pending  \* per concurrent caller: the call whose statement is yet to run

vars == <<table, seq, issued, call, db, ret, before, pending>>

\* The call and result records, with Go zero values in the unused places.
Call(name, p, number, client, status, address) ==
  [name |-> name, p |-> p, number |-> number, client |-> client,
   status |-> status, address |-> address]

Ret(number, parcel, parcels, err) ==
  [number |-> number, parcel |-> parcel, parcels |-> parcels, err |-> err]

\* A caller between two calls, and a caller inside a call: its statement is
\* yet to run (done = FALSE) or has run and the method is about to return
\* (done = TRUE). seen is the status row number had when the call was made
\* ("" when there was no such row).
Idle ==
  [name |-> "", number |-> 0, status |-> "", address |-> "", seen |-> "",
   done |-> FALSE]
Sent(name, number, status, address, seen) ==
  [name |-> name, number |-> number, status |-> status, address |-> address,
   seen |-> seen, done |-> FALSE]

\* The database's answers: to the statement, and to Result.LastInsertId.
Db(exec, id) == [exec |-> exec, id |-> id]

\* ------------------------------------------------------------------------
\* The statements
\* ------------------------------------------------------------------------

\* Variant: a plain integer primary key, one more than the largest Number
\* now in the table.
NextNumberAfterLargest(t, s) ==
  IF t = {} THEN 1
  ELSE (CHOOSE n \in {r.number : r \in t} : \A r \in t : r.number <= n) + 1

\* The Number an autoincrement primary key gives to the next inserted row.
NextNumber(t, s) == s + 1

\* Variant: the insert also binds the number column, to p.Number when the
\* caller set one, replacing the row stored under it.
InsertParcelWithCallerNumber(t, s, p) ==
  LET n == IF p.Number = 0 THEN s + 1 ELSE p.Number
  IN  {r \in t : r.number # n} \cup
        {[number |-> n, client |-> p.Client, status |-> p.Status,
          address |-> p.Address, created_at |-> p.CreatedAt]}

\* Variant: the insert binds the initial status instead of p.Status.
InsertParcelAsRegistered(t, s, p) ==
  t \cup {[number |-> s + 1, client |-> p.Client, status |-> "registered",
           address |-> p.Address, created_at |-> p.CreatedAt]}

\* INSERT INTO parcel (client, status, address, created_at) VALUES (?, ?, ?, ?)
InsertParcel(t, s, p) ==
  t \cup {[number |-> NextNumber(t, s), client |-> p.Client, status |-> p.Status,
           address |-> p.Address, created_at |-> p.CreatedAt]}

\* SELECT number, client, status, address, created_at FROM parcel WHERE number = ?
SelectByNumber(t, number) == {r \in t : r.number = number}

\* Variant: the query by client without its WHERE clause.
SelectEveryClient(t, client) == t

\* SELECT number, client, status, address, created_at FROM parcel WHERE client = ?
SelectByClient(t, client) == {r \in t : r.client = client}

\* Variant: the status update refuses to lead back to 'registered'.
UpdateStatusNeverBackToRegistered(t, status, number) ==
  {IF r.number = number /\ ~(status = "registered" /\ r.status # "registered")
     THEN [r EXCEPT !.status = status] ELSE r : r \in t}

\* Variant: the status update names the address column.
UpdateStatusIntoAddress(t, status, number) ==
  {IF r.number = number THEN [r EXCEPT !.address = status] ELSE r : r \in t}

\* Variant: the status update carries the guard of the two other mutations.
UpdateStatusOfRegistered(t, status, number) ==
  {IF r.number = number /\ r.status = "registered"
     THEN [r EXCEPT !.status = status] ELSE r : r \in t}

\* UPDATE parcel SET status = ? WHERE number = ?
UpdateStatus(t, status, number) ==
  {IF r.number = number THEN [r EXCEPT !.status = status] ELSE r : r \in t}

\* Variant: the address update without the number in its WHERE clause.
UpdateAddressEveryRegistered(t, address, number, status) ==
  {IF r.status = status THEN [r EXCEPT !.address = address] ELSE r : r \in t}

\* Variant: the address update without its status guard.
UpdateAddressAnyStatus(t, address, number, status) ==
  {IF r.number = number THEN [r EXCEPT !.address = address] ELSE r : r \in t}

\* UPDATE parcel SET address = ? WHERE number = ? AND status = ?
UpdateAddress(t, address, number, status) ==
  {IF r.number = number /\ r.status = status
     THEN [r EXCEPT !.address = address] ELSE r : r \in t}

\* Variant: the delete compares the status with a misspelt literal.
DeleteNothing(t, number) ==
  {r \in t : ~(r.number = number /\ r.status = "registred")}

\* Variant: the delete without its status guard.
DeleteAnyStatus(t, number) == {r \in t : r.number # number}

\* DELETE FROM parcel WHERE number = ? AND status = 'registered'
DeleteRegistered(t, number) ==
  {r \in t : ~(r.number = number /\ r.status = "registered")}

\* rows.Scan / row.Scan: the columns of a row into the fields of a Parcel
Scan(r) ==
  [Number |-> r.number, Client |-> r.client, Status |-> r.status,
   Address |-> r.address, CreatedAt |-> r.created_at]

\* Every order in which a query without ORDER BY may deliver the rows rs.
RowOrders(rs) ==
  {o \in [1..Cardinality(rs) -> rs] : \A i, j \in DOMAIN o : i # j => o[i] # o[j]}

\* ------------------------------------------------------------------------
\* Results of the two queries, as functions of the table
\* ------------------------------------------------------------------------

\* Variant: Get drops the error of Scan.
GetResultWithoutScanError(t, number, dbErr) ==
  IF {r \in t : r.number = number} = {} THEN Ret(0, ZeroParcel, <<>>, NoError)
  ELSE Ret(0, Scan(CHOOSE r \in t : r.number = number), <<>>, NoError)

\* Get: QueryRow, then Scan; Scan reports the query's error, or ErrNoRows.
GetResult(t, number, dbErr) ==
  IF dbErr # NoError THEN Ret(0, ZeroParcel, <<>>, dbErr)
  ELSE IF SelectByNumber(t, number) = {} THEN Ret(0, ZeroParcel, <<>>, ErrNoRows)
  ELSE Ret(0, Scan(CHOOSE r \in SelectByNumber(t, number) : TRUE), <<>>, NoError)

\* GetByClient: Query, then Scan of every row delivered (in the order o).
GetByClientResult(o, dbErr) ==
  IF dbErr # NoError THEN Ret(0, ZeroParcel, <<>>, dbErr)
  ELSE Ret(0, ZeroParcel, [i \in DOMAIN o |-> Scan(o[i])], NoError)

\* ------------------------------------------------------------------------
\* The shape of the state
\* ------------------------------------------------------------------------
Parcels ==
  [Number : Numbers, Client : Clients, Status : Statuses,
   Address : Addresses, CreatedAt : CreatedAts]

TypeOK ==
  /\ table \subseteq Rows
  /\ seq \in 0..MaxNumber
  /\ issued \in Seq(Numbers)
  /\ call.name \in {"NewParcelStore", "Add", "Get", "GetByClient",
                    "SetStatus", "SetAddress", "Delete"}
  /\ db \in [exec : ExecOutcomes, id : IdOutcomes]
  /\ ret.number \in 0..MaxNumber
  /\ ret.parcel \in Parcels \cup {ZeroParcel}
  /\ \A i \in DOMAIN ret.parcels : ret.parcels[i] \in Parcels
  /\ ret.err \in {NoError, ErrNoRows, ErrDatabase, ErrLastInsertId}
  /\ before \subseteq Rows
  /\ \A c \in Callers :
       /\ pending[c].name \in {"", "Get", "SetStatus", "SetAddress", "Delete"}
       /\ pending[c].number \in 0..MaxNumber
       /\ pending[c].status \in Statuses \cup {""}
       /\ pending[c].address \in Addresses \cup {""}
       /\ pending[c].seen \in Statuses \cup {""}
       /\ pending[c].done \in BOOLEAN

\* ------------------------------------------------------------------------
\* Construction
\* ------------------------------------------------------------------------
Init ==
  /\ table = {}
  /\ seq = 0
  /\ issued = <<>>
  /\ call = Call("NewParcelStore", ZeroParcel, 0, 0, "", "")
  /\ db = Db(NoError, NoError)
  /\ ret = Ret(0, ZeroParcel, <<>>, NoError)
  /\ before = {}
  /\ pending = [c \in Callers |-> Idle]

\* ------------------------------------------------------------------------
\* The operations
\* ------------------------------------------------------------------------
\* Variant: Add returns the Number field of its argument.
AddReturningCallerNumber(p, execErr, idErr) ==
  /\ seq < MaxNumber
  /\ call' = Call("Add", p, 0, 0, "", "")
  /\ before' = table
  /\ UNCHANGED pending
  /\ IF execErr # NoError
       THEN /\ db' = Db(execErr, NoError)
            /\ UNCHANGED <<table, seq, issued>>
            /\ ret' = Ret(0, ZeroParcel, <<>>, execErr)
       ELSE /\ db' = Db(execErr, idErr)
            /\ table' = InsertParcel(table, seq, p)
            /\ seq' = NextNumber(table, seq)
            /\ issued' = Append(issued, NextNumber(table, seq))
            /\ ret' = IF idErr # NoError
                        THEN Ret(0, ZeroParcel, <<>>, idErr)
                        ELSE Ret(p.Number, ZeroParcel, <<>>, NoError)

\* Variant: Add takes the inserted row back when LastInsertId fails.
AddUndoingInsert(p, execErr, idErr) ==
  /\ seq < MaxNumber
  /\ call' = Call("Add", p, 0, 0, "", "")
  /\ before' = table
  /\ UNCHANGED pending
  /\ IF execErr # NoError
       THEN /\ db' = Db(execErr, NoError)
            /\ UNCHANGED <<table, seq, issued>>
            /\ ret' = Ret(0, ZeroParcel, <<>>, execErr)
       ELSE /\ db' = Db(execErr, idErr)
            /\ table' = IF idErr # NoError THEN table
                        ELSE InsertParcel(table, seq, p)
            /\ seq' = NextNumber(table, seq)
            /\ issued' = Append(issued, NextNumber(table, seq))
            /\ ret' = IF idErr # NoError
                        THEN Ret(0, ZeroParcel, <<>>, idErr)
                        ELSE Ret(NextNumber(table, seq), ZeroParcel, <<>>, NoError)

Add(p, execErr, idErr) ==
  /\ seq < MaxNumber
  /\ call' = Call("Add", p, 0, 0, "", "")
  /\ before' = table
  /\ UNCHANGED pending
  /\ IF execErr # NoError
       THEN /\ db' = Db(execErr, NoError)
            /\ UNCHANGED <<table, seq, issued>>
            /\ ret' = Ret(0, ZeroParcel, <<>>, execErr)
       ELSE /\ db' = Db(execErr, idErr)
            /\ table' = InsertParcel(table, seq, p)
            /\ seq' = NextNumber(table, seq)
            /\ issued' = Append(issued, NextNumber(table, seq))
            /\ ret' = IF idErr # NoError
                        THEN Ret(0, ZeroParcel, <<>>, idErr)
                        ELSE Ret(NextNumber(table, seq), ZeroParcel, <<>>, NoError)

Get(number, dbErr) ==
  /\ call' = Call("Get", ZeroParcel, number, 0, "", "")
  /\ db' = Db(dbErr, NoError)
  /\ before' = table
  /\ UNCHANGED pending
  /\ ret' = GetResult(table, number, dbErr)
  /\ UNCHANGED <<table, seq, issued>>

GetByClient(client, dbErr) ==
  /\ call' = Call("GetByClient", ZeroParcel, 0, client, "", "")
  /\ db' = Db(dbErr, NoError)
  /\ before' = table
  /\ UNCHANGED pending
  /\ \E o \in RowOrders(SelectByClient(table, client)) :
       ret' = GetByClientResult(o, dbErr)
  /\ UNCHANGED <<table, seq, issued>>

SetStatus(number, status, dbErr) ==
  /\ call' = Call("SetStatus", ZeroParcel, number, 0, status, "")
  /\ db' = Db(dbErr, NoError)
  /\ before' = table
  /\ UNCHANGED pending
  /\ table' = IF dbErr # NoError THEN table
              ELSE UpdateStatus(table, status, number)
  /\ ret' = Ret(0, ZeroParcel, <<>>, dbErr)
  /\ UNCHANGED <<seq, issued>>

\* Variant: SetAddress reports zero affected rows as an error.
SetAddressRequiringRow(number, address, dbErr) ==
  /\ call' = Call("SetAddress", ZeroParcel, number, 0, "", address)
  /\ db' = Db(dbErr, NoError)
  /\ before' = table
  /\ UNCHANGED pending
  /\ table' = IF dbErr # NoError THEN table
              ELSE UpdateAddress(table, address, number, ParcelStatusRegistered)
  /\ ret' = IF dbErr = NoError /\ table' = table
              THEN Ret(0, ZeroParcel, <<>>, ErrNoRows)
              ELSE Ret(0, ZeroParcel, <<>>, dbErr)
  /\ UNCHANGED <<seq, issued>>

SetAddress(number, address, dbErr) ==
  /\ call' = Call("SetAddress", ZeroParcel, number, 0, "", address)
  /\ db' = Db(dbErr, NoError)
  /\ before' = table
  /\ UNCHANGED pending
  /\ table' = IF dbErr # NoError THEN table
              ELSE UpdateAddress(table, address, number, ParcelStatusRegistered)
  /\ ret' = Ret(0, ZeroParcel, <<>>, dbErr)
  /\ UNCHANGED <<seq, issued>>

Delete(number, dbErr) ==
  /\ call' = Call("Delete", ZeroParcel, number, 0, "", "")
  /\ db' = Db(dbErr, NoError)
  /\ before' = table
  /\ UNCHANGED pending
  /\ table' = IF dbErr # NoError THEN table
              ELSE DeleteRegistered(table, number)
  /\ ret' = Ret(0, ZeroParcel, <<>>, dbErr)
  /\ UNCHANGED <<seq, issued>>

Next ==
  \/ \E p \in InputParcels, e \in ExecOutcomes, i \in IdOutcomes : Add(p, e, i)
  \/ \E n \in AskedNumbers, e \in ExecOutcomes : Get(n, e)
  \/ \E c \in Clients, e \in ExecOutcomes : GetByClient(c, e)
  \/ \E n \in AskedNumbers, s \in Statuses, e \in ExecOutcomes : SetStatus(n, s, e)
  \/ \E n \in AskedNumbers, a \in Addresses, e \in ExecOutcomes : SetAddress(n, a, e)
  \/ \E n \in AskedNumbers, e \in ExecOutcomes : Delete(n, e)

Spec == Init /\ [][Next]_vars

\* ------------------------------------------------------------------------
\* Vocabulary of the properties
\* ------------------------------------------------------------------------

\* The database executed the statement of the last call.
Executed == db.exec = NoError

\* The rows stored under Number n before and after the last call.
OldRows(n) == {r \in before : r.number = n}
NewRows(n) == {r \in table : r.number = n}

\* The record a row is read back as.
AsParcel(r) ==
  [Number |-> r.number, Client |-> r.client, Status |-> r.status,
   Address |-> r.address, CreatedAt |-> r.created_at]

\* What a Get(n) made in the current state returns when its query executes.
GetNow(n) == GetResult(table, n, NoError)

\* ------------------------------------------------------------------------
\* C1: when the statement of SetAddress(n, addr) executes, the call reports
\* success; if a row n existed with Status 'registered' its Address is now
\* addr and nothing else of it changed; in every other case (no row n, or
\* any other status) what is stored under n is exactly what was stored.
\* ------------------------------------------------------------------------
C1_SetAddressOnlyWhenRegistered ==
  (call.name = "SetAddress" /\ Executed) =>
    /\ ret.err = NoError
    /\ NewRows(call.number) =
         {IF r.status = "registered"
            THEN [r EXCEPT !.address = call.address] ELSE r :
          r \in OldRows(call.number)}

\* SetAddress has just replaced the address of a registered parcel.
C1_Witness ==
  /\ call.name = "SetAddress" /\ Executed
  /\ \E r \in OldRows(call.number) :
       r.status = "registered" /\ r.address # call.address

\* ------------------------------------------------------------------------
\* C2: when the statement of Delete(n) executes, the call reports success;
\* row n is gone if its Status was 'registered', and with any other status
\* the row is still stored with every field as it was.
\* ------------------------------------------------------------------------
C2_DeleteOnlyWhenRegistered ==
  (call.name = "Delete" /\ Executed) =>
    /\ ret.err = NoError
    /\ NewRows(call.number) =
         {r \in OldRows(call.number) : r.status # "registered"}

\* Delete has just been refused, silently, on a parcel that is not registered.
C2_Witness ==
  /\ call.name = "Delete" /\ Executed /\ ret.err = NoError
  /\ \E r \in OldRows(call.number) : r.status = "sent" /\ r \in table

\* ------------------------------------------------------------------------
\* C3: when Add(p) returns Number n without error, a Get(n) made next
\* succeeds and returns Client, Status, Address and CreatedAt of p, with
\* Number n.
\* ------------------------------------------------------------------------
C3_GetAfterAdd ==
  (call.name = "Add" /\ ret.err = NoError) =>
    GetNow(ret.number) =
      Ret(0, [call.p EXCEPT !.Number = ret.number], <<>>, NoError)

\* Add has just stored a parcel that is not registered, under a Number that
\* differs from the one the caller left in p.
C3_Witness ==
  /\ call.name = "Add" /\ ret.err = NoError
  /\ call.p.Number # ret.number
  /\ call.p.Status = "delivered"

\* ------------------------------------------------------------------------
\* C4: after Delete(n) succeeds on a parcel whose status is 'registered',
\* Get(n) fails with the no-row error.
\* ------------------------------------------------------------------------
C4_GetAfterDeleteFails ==
  (/\ call.name = "Delete" /\ Executed /\ ret.err = NoError
   /\ \E r \in OldRows(call.number) : r.status = "registered") =>
    GetNow(call.number) = Ret(0, ZeroParcel, <<>>, ErrNoRows)

\* Delete has just succeeded on a registered parcel, another row remaining.
C4_Witness ==
  /\ call.name = "Delete" /\ Executed /\ ret.err = NoError
  /\ \E r \in OldRows(call.number) : r.status = "registered"
  /\ table # {}

\* ------------------------------------------------------------------------
\* C5: when the statement of SetStatus(n, s) executes on an existing row n,
\* whatever its status was, the call reports success and a Get(n) made next
\* returns that row with Status s and its other fields as they were.
\* ------------------------------------------------------------------------
C5_SetStatusAlwaysOverwrites ==
  (call.name = "SetStatus" /\ Executed) =>
    \A r \in OldRows(call.number) :
      /\ ret.err = NoError
      /\ GetNow(call.number) =
           Ret(0, [AsParcel(r) EXCEPT !.Status = call.status], <<>>, NoError)

\* SetStatus has just moved a parcel from one non-registered status to another.
C5_Witness ==
  /\ call.name = "SetStatus" /\ Executed
  /\ call.status = "delivered"
  /\ \E r \in OldRows(call.number) : r.status = "sent"


\* ------------------------------------------------------------------------
\* C6: when the query of GetByClient(c) executes, after any operations, the
\* call reports no error and returns exactly the rows now stored whose
\* Client is c, each once with its current fields: no row of another
\* client, no deleted row, and the empty result when no row matches.
\* ------------------------------------------------------------------------
C6_GetByClientExact ==
  (call.name = "GetByClient" /\ Executed) =>
    /\ ret.err = NoError
    /\ Len(ret.parcels) = Cardinality({r \in table : r.client = call.client})
    /\ {ret.parcels[i] : i \in DOMAIN ret.parcels} =
         {AsParcel(r) : r \in {x \in table : x.client = call.client}}

\* GetByClient has just returned a parcel while another client's is stored.
C6_Witness ==
  /\ call.name = "GetByClient" /\ Executed
  /\ Len(ret.parcels) > 0
  /\ \E r \in table : r.client # call.client

\* ------------------------------------------------------------------------
\* C7: the Numbers given to inserted rows are pairwise different, also
\* after deletions; a successful Add returns the Number it has just given
\* out; and a row appears under a Number only by the Add that first gives
\* that Number out, so a deleted parcel never comes back.
\* ------------------------------------------------------------------------
C7_NumbersNeverReused ==
  /\ \A i, j \in DOMAIN issued : i # j => issued[i] # issued[j]
  /\ (call.name = "Add" /\ ret.err = NoError) =>
       (ret.number = issued[Len(issued)] /\ NewRows(ret.number) # {})
  /\ \A r \in table :
       OldRows(r.number) = {} =>
         /\ call.name = "Add"
         /\ r.number = issued[Len(issued)]

\* Add has just succeeded after an earlier parcel was deleted.
C7_Witness ==
  /\ call.name = "Add" /\ ret.err = NoError
  /\ \E i \in DOMAIN issued :
       issued[i] # ret.number /\ NewRows(issued[i]) = {}

\* ------------------------------------------------------------------------
\* C8: when the statement of SetStatus, SetAddress or Delete executes with
\* a Number that matches no row, the call reports success and the table is
\* exactly as it was.
\* ------------------------------------------------------------------------
C8_NoRowIsSuccess ==
  (/\ call.name \in {"SetStatus", "SetAddress", "Delete"}
   /\ Executed
   /\ OldRows(call.number) = {}) =>
    (ret.err = NoError /\ table = before)

\* SetAddress has just been called with the Number of no row, a registered
\* parcel being stored under another Number.
C8_Witness ==
  /\ call.name = "SetAddress" /\ Executed
  /\ OldRows(call.number) = {}
  /\ \E r \in before : r.status = "registered"

\* ------------------------------------------------------------------------
\* C9: when the query of Get(n) executes, Get returns an error exactly when
\* no row with Number n is stored, and then the zero Parcel; for a stored
\* row it returns that row's current fields.
\* ------------------------------------------------------------------------
C9_GetFailsIffNoRow ==
  (call.name = "Get" /\ Executed) =>
    /\ (ret.err # NoError) <=> (NewRows(call.number) = {})
    /\ (ret.err # NoError) => (ret.parcel = ZeroParcel)
    /\ \A r \in NewRows(call.number) : ret.parcel = AsParcel(r)

\* Get has just failed on the Number of a parcel that was deleted.
C9_Witness ==
  /\ call.name = "Get" /\ Executed
  /\ ret.err = ErrNoRows
  /\ \E i \in DOMAIN issued : issued[i] = call.number

\* ------------------------------------------------------------------------
\* C10: each Number holds at most one row; every call but an executed
\* Delete keeps every row under its Number with the same Client and
\* CreatedAt; a row's Status differs only after SetStatus on its Number
\* and its Address only after SetAddress on its Number.
\* ------------------------------------------------------------------------
C10_FieldsChangeOnlyByTheirSetter ==
  /\ \A r, q \in table : r.number = q.number => r = q
  /\ \A r \in before :
       /\ call.name # "Delete" => NewRows(r.number) # {}
       /\ \A q \in NewRows(r.number) :
            /\ q.client = r.client
            /\ q.created_at = r.created_at
            /\ q.status # r.status =>
                 (call.name = "SetStatus" /\ call.number = r.number)
            /\ q.address # r.address =>
                 (call.name = "SetAddress" /\ call.number = r.number)

\* SetStatus has just changed the status of one of two stored parcels.
C10_Witness ==
  /\ call.name = "SetStatus" /\ Executed
  /\ Cardinality(table) = 2
  /\ \E r \in OldRows(call.number) : r.status # call.status


\* ------------------------------------------------------------------------
\* C11: when the INSERT of Add(p) executes, whatever p.Number is (also the
\* Number of a stored row), every row stored before is still stored
\* unchanged and exactly one row is new: it carries the four other fields
\* of p under the Number the store has just given out, not one in use.
\* ------------------------------------------------------------------------
C11_AddIgnoresCallerNumber ==
  (call.name = "Add" /\ Executed) =>
    /\ before \subseteq table
    /\ table \ before =
         {[number |-> issued[Len(issued)], client |-> call.p.Client,
           status |-> call.p.Status, address |-> call.p.Address,
           created_at |-> call.p.CreatedAt]}
    /\ OldRows(issued[Len(issued)]) = {}

\* Add has just been given a parcel whose Number is that of a stored row.
C11_Witness ==
  /\ call.name = "Add" /\ Executed
  /\ OldRows(call.p.Number) # {}

\* ------------------------------------------------------------------------
\* C12: an Add that returns no error returns a Number that is not zero, and
\* an Add that returns an error returns Number 0.
\* ------------------------------------------------------------------------
C12_AddZeroOnlyWithError ==
  (call.name = "Add") => ((ret.number = 0) <=> (ret.err # NoError))

\* Add has just succeeded for a caller who left Number 0 in the parcel.
C12_Witness ==
  /\ call.name = "Add" /\ ret.err = NoError
  /\ call.p.Number = 0

\* ------------------------------------------------------------------------
\* C13: SetStatus(n, .), SetAddress(n, .) and Delete(n) leave every row
\* whose Number is not n exactly as it was, rows of the same client and
\* rows in status 'registered' included.
\* ------------------------------------------------------------------------
C13_OtherRowsUntouched ==
  (call.name \in {"SetStatus", "SetAddress", "Delete"}) =>
    {r \in table : r.number # call.number} =
      {r \in before : r.number # call.number}

\* SetAddress has just changed a registered parcel while another registered
\* parcel of the same client, with another address, is stored.
C13_Witness ==
  /\ call.name = "SetAddress" /\ Executed
  /\ \E r \in OldRows(call.number), q \in before :
       /\ q.number # r.number /\ q.client = r.client
       /\ r.status = "registered" /\ q.status = "registered"
       /\ r.address # call.address /\ q.address # call.address


\* ------------------------------------------------------------------------
\* C16, as claimed: whenever a call returns an error, the table is exactly
\* as it was before the call.
\* ------------------------------------------------------------------------
C16_ErrorLeavesTableAsClaimed ==
  (ret.err # NoError) => (table = before)

\* ------------------------------------------------------------------------
\* C16, amended: whenever a call returns an error the table is exactly as
\* it was before the call, except when Add returns the error of
\* LastInsertId: the INSERT has then executed, and the row of p is stored
\* under a new Number although Add returns 0 and the error.
\* ------------------------------------------------------------------------
C16_ErrorLeavesTableButForLastInsertId ==
  /\ (ret.err # NoError /\ ~(call.name = "Add" /\ ret.err = ErrLastInsertId))
       => (table = before)
  /\ (call.name = "Add" /\ ret.err = ErrLastInsertId) =>
       /\ ret.number = 0
       /\ before \subseteq table
       /\ table \ before =
            {[number |-> issued[Len(issued)], client |-> call.p.Client,
              status |-> call.p.Status, address |-> call.p.Address,
              created_at |-> call.p.CreatedAt]}

\* Add has just returned the error of LastInsertId, a row being stored.
C16_Witness ==
  /\ call.name = "Add" /\ ret.err = ErrLastInsertId
  /\ Cardinality(table) = 2


\* ------------------------------------------------------------------------
\* C15: no transition graph. Every executed SetStatus(n, s) on a stored row
\* writes s whatever the status was, back to 'registered' included; and
\* when the last call has put a row back to 'registered' from another
\* status, an executed SetAddress on it made next writes the address and an
\* executed Delete on it made next removes the row.
\* ------------------------------------------------------------------------

\* The last call has put row call.number back to 'registered'.
BackToRegistered ==
  /\ call.name = "SetStatus" /\ Executed
  /\ call.status = "registered"
  /\ \E r \in OldRows(call.number) : r.status # "registered"

C15_Step ==
  /\ (call'.name = "SetStatus" /\ db'.exec = NoError) =>
       {r \in table' : r.number = call'.number} =
         {[r EXCEPT !.status = call'.status] : r \in SelectByNumber(table, call'.number)}
  /\ (/\ BackToRegistered
      /\ call'.name = "SetAddress" /\ call'.number = call.number
      /\ db'.exec = NoError) =>
       /\ {r \in table' : r.number = call.number} # {}
       /\ \A r \in table' : r.number = call.number => r.address = call'.address
  /\ (/\ BackToRegistered
      /\ call'.name = "Delete" /\ call'.number = call.number
      /\ db'.exec = NoError) =>
       {r \in table' : r.number = call.number} = {}

C15_NoTransitionGraph == [][C15_Step]_vars

\* SetStatus has just put a delivered parcel back to 'registered'.
C15_Witness ==
  /\ BackToRegistered
  /\ \E r \in OldRows(call.number) : r.status = "delivered"
  /\ \E r \in NewRows(call.number) : r.status = "registered"


\* ------------------------------------------------------------------------
\* Concurrent callers. Every method hands the database one statement; the
\* database runs each statement as one step (the isolation the store leaves
\* to the engine), at some moment between the call and the return.
\* ------------------------------------------------------------------------

\* The status stored under number, "" when no row is.
StatusOf(t, number) ==
  IF SelectByNumber(t, number) = {} THEN ""
  ELSE (CHOOSE r \in SelectByNumber(t, number) : TRUE).status

\* Variant: SetAddress reads the status when called and, if it was
\* 'registered', later updates the address by number alone.
RunSetAddressAfterCheck(t, seen, number, address) ==
  IF seen = "registered"
    THEN UpdateAddressAnyStatus(t, address, number, "registered") ELSE t

\* The statement of SetAddress as the database runs it: the guard is part
\* of the statement; what the caller could have seen plays no part.
RunSetAddress(t, seen, number, address) ==
  UpdateAddress(t, address, number, ParcelStatusRegistered)

\* The statement of Delete as the database runs it.
RunDelete(t, seen, number) == DeleteRegistered(t, number)

\* The store holding one parcel, just added by a successful Add.
ConcInit ==
  \E p \in InputParcels :
    /\ p.Number = 0
    /\ table = InsertParcel({}, 0, p)
    /\ seq = NextNumber({}, 0)
    /\ issued = <<NextNumber({}, 0)>>
    /\ call = Call("Add", p, 0, 0, "", "")
    /\ db = Db(NoError, NoError)
    /\ ret = Ret(NextNumber({}, 0), ZeroParcel, <<>>, NoError)
    /\ before = {}
    /\ pending = [c \in Callers |-> Idle]

\* Caller c makes a call on parcel number.
Invoke(c, name, number, status, address) ==
  /\ pending[c] = Idle
  /\ pending' = [pending EXCEPT
                   ![c] = Sent(name, number, status, address,
                               StatusOf(table, number))]
  /\ UNCHANGED <<table, seq, issued, call, db, ret, before>>

\* The database runs the statement of caller c's call.
Run(c, name, dbErr, t, r) ==
  /\ pending[c].name = name /\ ~pending[c].done
  /\ pending' = [pending EXCEPT ![c].done = TRUE]
  /\ call' = Call(name, ZeroParcel, pending[c].number, 0,
                  pending[c].status, pending[c].address)
  /\ db' = Db(dbErr, NoError)
  /\ before' = table
  /\ table' = IF dbErr # NoError THEN table ELSE t
  /\ ret' = r
  /\ UNCHANGED <<seq, issued>>

RunGet(c, dbErr) ==
  Run(c, "Get", dbErr, table, GetResult(table, pending[c].number, dbErr))

RunSetStatus(c, dbErr) ==
  Run(c, "SetStatus", dbErr,
      UpdateStatus(table, pending[c].status, pending[c].number),
      Ret(0, ZeroParcel, <<>>, dbErr))

RunSetAddressOf(c, dbErr) ==
  Run(c, "SetAddress", dbErr,
      RunSetAddress(table, pending[c].seen, pending[c].number,
                    pending[c].address),
      Ret(0, ZeroParcel, <<>>, dbErr))

RunDeleteOf(c, dbErr) ==
  Run(c, "Delete", dbErr,
      RunDelete(table, pending[c].seen, pending[c].number),
      Ret(0, ZeroParcel, <<>>, dbErr))

\* The method returns to caller c.
Return(c) ==
  /\ pending[c].done
  /\ pending' = [pending EXCEPT ![c] = Idle]
  /\ UNCHANGED <<table, seq, issued, call, db, ret, before>>

\* The Numbers concurrent callers work on: those of the parcels added.
SharedNumbers == {issued[i] : i \in DOMAIN issued}

ConcNext ==
  \/ \E c \in Callers, n \in SharedNumbers : Invoke(c, "Get", n, "", "")
  \/ \E c \in Callers, n \in SharedNumbers, st \in Statuses :
       Invoke(c, "SetStatus", n, st, "")
  \/ \E c \in Callers, n \in SharedNumbers, a \in Addresses :
       Invoke(c, "SetAddress", n, "", a)
  \/ \E c \in Callers, n \in SharedNumbers : Invoke(c, "Delete", n, "", "")
  \/ \E c \in Callers, e \in ExecOutcomes : RunGet(c, e)
  \/ \E c \in Callers, e \in ExecOutcomes : RunSetStatus(c, e)
  \/ \E c \in Callers, e \in ExecOutcomes : RunSetAddressOf(c, e)
  \/ \E c \in Callers, e \in ExecOutcomes : RunDeleteOf(c, e)
  \/ \E c \in Callers : Return(c)

ConcSpec == ConcInit /\ [][ConcNext]_vars

\* ------------------------------------------------------------------------
\* C14: with callers working in parallel on one parcel, every statement
\* takes effect in one step on the table as it is at that instant, so the
\* table is always the result of the calls in the order their statements
\* ran: a statement that did not execute changes nothing, SetStatus writes
\* the status, and SetAddress and Delete act on row n exactly when its
\* status is 'registered' at the instant of the write, whatever it was when
\* the call was made; a row that is not 'registered' then is left as it is.
\* ------------------------------------------------------------------------
C14_StatementsAreAtomic ==
  /\ call.name \in {"Get", "SetStatus", "SetAddress", "Delete"} /\ ~Executed
       => table = before
  /\ call.name = "Get" => table = before
  /\ (call.name = "Get" /\ Executed) =>
       /\ (ret.err = ErrNoRows) <=> (OldRows(call.number) = {})
       /\ \A r \in OldRows(call.number) : ret.parcel = AsParcel(r)
  /\ (call.name = "SetStatus" /\ Executed) =>
       table = {IF r.number = call.number
                  THEN [r EXCEPT !.status = call.status] ELSE r : r \in before}
  /\ (call.name = "SetAddress" /\ Executed) =>
       table = {IF r.number = call.number /\ r.status = "registered"
                  THEN [r EXCEPT !.address = call.address] ELSE r : r \in before}
  /\ (call.name = "Delete" /\ Executed) =>
       table = {r \in before :
                  ~(r.number = call.number /\ r.status = "registered")}

\* The statement of a SetAddress has just run on a parcel that was
\* 'registered' when the call was made and that a concurrent SetStatus had
\* meanwhile put to 'sent': the address is not written.
C14_Witness ==
  /\ call.name = "SetAddress" /\ Executed
  /\ \E c \in Callers :
       /\ pending[c].done /\ pending[c].name = "SetAddress"
       /\ pending[c].number = call.number /\ pending[c].address = call.address
       /\ pending[c].seen = "registered"
  /\ \E r \in OldRows(call.number) :
       r.status = "sent" /\ r.address # call.address /\ r \in table

====
